---- MODULE Spec2Model ----
(***************************************************************************)
(* A model of SimpleConfigParser (simple_config_parser.py): the line       *)
(* classifier (the five regular expressions), the line-by-line document    *)
(* builder _parse_config, the accessors and the mutation methods.          *)
(*                                                                         *)
(* Text is modelled as a sequence of one-character strings, so that the    *)
(* regular expressions, str.strip, str.split and the f-strings are         *)
(* computed character by character.  A Python dict is modelled as a        *)
(* sequence of [k, v] records in insertion order.                          *)
(***************************************************************************)
EXTENDS Integers, Sequences, FiniteSets, TLC

(***************************************************************************)
(* Bounds of the model.                                                    *)
(***************************************************************************)
\* lines fed to one _parse_config call when only the parser is explored
MaxLines == 5
\* lines of the document the mutation methods are explored on
MaxDocLines == 3
\* calls of add_section / remove_section / set / remove_option after the parse
MaxOps == 2
\* lines of the document the converting accessors are explored on
MaxConvLines == 3
\* the longest document fed to the line-at-a-time parser, in lines
MaxFeedLines == 4
\* the longest document of lines to classify, in lines
MaxClassLines == 2

(***************************************************************************)
(* Characters and text.                                                    *)
(***************************************************************************)
NL == "\n"

\* the decimal digits, and the letters in the order of the alphabet
Digits == <<"0", "1", "2", "3", "4", "5", "6", "7", "8", "9">>
LowerCase == <<"a", "b", "c", "d", "e", "f", "g", "h", "i", "j", "k", "l", "m",
               "n", "o", "p", "q", "r", "s", "t", "u", "v", "w", "x", "y", "z">>
UpperCase == <<"A", "B", "C", "D", "E", "F", "G", "H", "I", "J", "K", "L", "M",
               "N", "O", "P", "Q", "R", "S", "T", "U", "V", "W", "X", "Y", "Z">>

\* the characters that Python's \w matches (ASCII)
WordChars == {Digits[i] : i \in 1..10} \cup {LowerCase[i] : i \in 1..26}
             \cup {UpperCase[i] : i \in 1..26} \cup {"_"}

\* \s of the re module, restricted to the ASCII whitespace of the alphabet
IsSpace(c) == c \in {" ", "\t", NL, "\r", "\f"}

\* \w of the re module
IsWord(c) == c \in WordChars

\* the first index >= i of s that holds no whitespace (Len(s)+1 if none)
RECURSIVE SkipSpace(_, _)
SkipSpace(s, i) == IF i <= Len(s) /\ IsSpace(s[i]) THEN SkipSpace(s, i + 1) ELSE i

\* the first index >= i of s that holds no word character (Len(s)+1 if none)
RECURSIVE SkipWord(_, _)
SkipWord(s, i) == IF i <= Len(s) /\ IsWord(s[i]) THEN SkipWord(s, i + 1) ELSE i

\* the first index >= i of s that holds a line break (Len(s)+1 if none):
\* where a greedy ".*" started at i stops
RECURSIVE FirstNL(_, _)
FirstNL(s, i) == IF i <= Len(s) /\ s[i] # NL THEN FirstNL(s, i + 1) ELSE i

\* "$" without re.MULTILINE: the end of the text, or just before a final "\n"
AtEnd(s, p) == p = Len(s) + 1 \/ (p = Len(s) /\ s[p] = NL)

\* the index of the last non-whitespace character of s (0 if none)
RECURSIVE LastNonSpace(_, _)
LastNonSpace(s, i) == IF i >= 1 /\ IsSpace(s[i]) THEN LastNonSpace(s, i - 1) ELSE i

\* str.strip()
Strip(s) == SubSeq(s, SkipSpace(s, 1), LastNonSpace(s, Len(s)))

\* "".join(parts)
RECURSIVE Join(_)
Join(parts) == IF parts = <<>> THEN <<>> ELSE Head(parts) \o Join(Tail(parts))

\* the index of the first "\n" of s at or after i, 0 if there is none
NextBreak(s, i) == IF FirstNL(s, i) <= Len(s) THEN FirstNL(s, i) ELSE 0

\* str.split("\n")
RECURSIVE Split(_)
Split(s) ==
    IF NextBreak(s, 1) = 0 THEN <<s>>
    ELSE <<SubSeq(s, 1, NextBreak(s, 1) - 1)>>
             \o Split(SubSeq(s, NextBreak(s, 1) + 1, Len(s)))

\* " " * n
RECURSIVE Spaces(_)
Spaces(n) == IF n = 0 THEN <<>> ELSE <<" ">> \o Spaces(n - 1)

(***************************************************************************)
(* The regular expressions.  re.match anchors at the start of the line;    *)
(* every operator below computes the match the backtracking engine finds   *)
(* (greedy quantifiers, longest first).                                    *)
(***************************************************************************)

\* _SECTION_RE: \s*\[(\w+ ?\w+)]\s*([#|;].*)*$
\* the index of the closing "]" of the bracketed name, 0 when the head
\* \s*\[(\w+ ?\w+)] does not match
_SECTION_RE_close(s) ==
    LET i == SkipSpace(s, 1)
        j == SkipWord(s, i + 1)
        j2 == SkipWord(s, j + 1)
    IN  IF ~(i <= Len(s) /\ s[i] = "[") THEN 0
        ELSE IF j <= Len(s) /\ s[j] = "]" /\ j - (i + 1) >= 2 THEN j
        ELSE IF j <= Len(s) /\ s[j] = " " /\ j > i + 1
                /\ j2 > j + 1 /\ j2 <= Len(s) /\ s[j2] = "]" THEN j2
        ELSE 0

\* _SECTION_RE without its tail \s*([#|;].*)*$: the bracketed name alone
_SECTION_RE_match_head(s) == _SECTION_RE_close(s) # 0

_SECTION_RE_match(s) ==
    LET e == _SECTION_RE_close(s)
        t == SkipSpace(s, e + 1)
    IN  /\ e # 0
        /\ \/ t = Len(s) + 1
           \/ (t <= Len(s) /\ s[t] \in {"#", "|", ";"} /\ AtEnd(s, FirstNL(s, t)))

\* group(1) of _SECTION_RE
_SECTION_RE_group1(s) ==
    SubSeq(s, SkipSpace(s, 1) + 1, _SECTION_RE_close(s) - 1)

\* the head ^\s*(\w+)\s*[:=][^:=] shared by _OPTION_RE and _ML_OPTION_RE:
\* the index of the delimiter, 0 when the head does not match
OptionHead(s) ==
    LET i == SkipSpace(s, 1)
        j == SkipWord(s, i)
        d == SkipSpace(s, j)
    IN  IF /\ j > i
           /\ d <= Len(s) /\ s[d] \in {":", "="}
           /\ d + 1 <= Len(s) /\ s[d + 1] \notin {":", "="}
        THEN d ELSE 0

\* group(1) of _OPTION_RE and of _ML_OPTION_RE
OptionName(s) == SubSeq(s, SkipSpace(s, 1), SkipWord(s, SkipSpace(s, 1)) - 1)

\* the tail \s*([#|;]*).*$ matches from index q
OptionTail(s, q) == \E r \in q..SkipSpace(s, q) : AtEnd(s, FirstNL(s, r))

\* _ML_OPTION_RE: ^\s*(\w+)\s*[:=][^:=]\s*([#|;]*).*$
_ML_OPTION_RE_match(s) == OptionHead(s) # 0 /\ OptionTail(s, OptionHead(s) + 2)

\* _OPTION_RE: ^\s*(\w+)\s*[:=][^:=]\s*(.+)\s*([#|;]*).*$
\* the pairs <<p, q>> such that group 2 = s[p..q-1] lets the whole pattern match
OptionSpans(s) ==
    LET d == OptionHead(s)
    IN  IF d = 0 THEN {}
        ELSE {pq \in ((d + 2)..Len(s)) \X ((d + 3)..(Len(s) + 1)) :
                /\ pq[1] <= SkipSpace(s, d + 2)
                /\ pq[2] > pq[1] /\ pq[2] <= FirstNL(s, pq[1])
                /\ OptionTail(s, pq[2])}

_OPTION_RE_match(s) == OptionSpans(s) # {}

\* group(2) of _OPTION_RE: the greedy \s* takes the longest run that still
\* lets the rest match, then the greedy .+ takes the longest value
_OPTION_RE_group2(s) ==
    LET sp == OptionSpans(s)
        pq == CHOOSE a \in sp : \A b \in sp :
                  b[1] < a[1] \/ (b[1] = a[1] /\ b[2] <= a[2])
    IN  SubSeq(s, pq[1], pq[2] - 1)

\* _COMMENT_RE: ^\s*[#;].*
_COMMENT_RE_match(s) ==
    SkipSpace(s, 1) <= Len(s) /\ s[SkipSpace(s, 1)] \in {"#", ";"}

\* _EMPTY_LINE_RE: ^\s*$
_EMPTY_LINE_RE_match(s) == SkipSpace(s, 1) = Len(s) + 1

_is_section(line) == _SECTION_RE_match(line)
_is_option(line) == _OPTION_RE_match(line)
_is_comment(line) == _COMMENT_RE_match(line)
_is_empty_line(line) == _EMPTY_LINE_RE_match(line)
_is_multiline_option(line) == _ML_OPTION_RE_match(line)

(***************************************************************************)
(* Python values.                                                          *)
(***************************************************************************)

\* a str value, as _parse_option stores it in _options
Str(s) == [t |-> "str", s |-> s, l |-> <<>>]

\* a list of str, as _parse_multiline_option and set store it in _options
List(l) == [t |-> "list", s |-> <<>>, l |-> l]

\* the sentinel _UNSET = object()
_UNSET == [t |-> "unset", s |-> <<>>, l |-> <<>>]

\* a dict, in insertion order: a sequence of [k, v] items with distinct keys
DictHas(d, key) == \E i \in 1..Len(d) : d[i].k = key
DictIdx(d, key) == CHOOSE i \in 1..Len(d) : d[i].k = key
DictGet(d, key) == d[DictIdx(d, key)].v
\* d[key] = val: a new key goes last, an old key keeps its place
DictSet(d, key, val) ==
    IF DictHas(d, key) THEN [d EXCEPT ![DictIdx(d, key)].v = val]
    ELSE Append(d, [k |-> key, v |-> val])
\* del d[key]
DictDel(d, key) == SelectSeq(d, LAMBDA it : it.k # key)
DictKeys(d) == [i \in 1..Len(d) |-> d[i].k]

\* x in lst, for a list
InList(x, lst) == \E i \in 1..Len(lst) : lst[i] = x

\* lst without its element at index i: del lst[i]
DelAt(lst, i) == SubSeq(lst, 1, i - 1) \o SubSeq(lst, i + 1, Len(lst))

\* the outcome of a method: the object's fields afterwards and the exception
\* that left the method ("none" when it returned)
Ok(self) == [self |-> self, exc |-> "none"]
Raise(self, e) == [self |-> self, exc |-> e]

(***************************************************************************)
(* SimpleConfigParser.__init__                                             *)
(***************************************************************************)
__init__ ==
    [_config |-> <<>>, _header |-> <<>>, _sections |-> <<>>, _options |-> <<>>,
     curr_sect_name |-> <<>>, in_option_block |-> FALSE]

(***************************************************************************)
(* The document builder.                                                   *)
(***************************************************************************)

\* _add_option_to_section_body(option, value, line): self._config[...] raises
\* KeyError when no section of that name is stored
_add_option_to_section_body(self, option, value, line) ==
    LET curr == self.curr_sect_name
        val == IF value # <<>> /\ ~_is_comment(value) THEN <<value>> ELSE <<>>
        raw_val == IF value # <<>> THEN <<value>> ELSE <<>>
        _option == [is_multiline |-> FALSE, option |-> option, value |-> val,
                    _raw |-> line, _raw_value |-> raw_val]
        sec == DictGet(self._config, curr)
    IN  IF ~DictHas(self._config, curr) THEN Raise(self, "KeyError")
        ELSE Ok([self EXCEPT !._config =
                    DictSet(@, curr, [sec EXCEPT !.body = Append(@, _option)])])

\* _parse_section as it would be if the header were stored before the
\* duplicate check: the earlier definition is replaced, then the error raised
_parse_section_stores_first(self, line) ==
    LET name == Strip(_SECTION_RE_group1(line))
        s1 == [self EXCEPT !.in_option_block = FALSE, !.curr_sect_name = name,
                           !._config = DictSet(@, name, [_raw |-> line, body |-> <<>>])]
    IN  IF InList(name, s1._sections) THEN Raise(s1, "DuplicateSectionError")
        ELSE Ok([s1 EXCEPT !._sections = Append(@, name)])

\* _parse_section(line)
_parse_section(self, line) ==
    LET name == Strip(_SECTION_RE_group1(line))
        s1 == [self EXCEPT !.in_option_block = FALSE, !.curr_sect_name = name]
    IN  IF InList(name, s1._sections) THEN Raise(s1, "DuplicateSectionError")
        ELSE Ok([s1 EXCEPT
                    !._sections = Append(@, name),
                    !._config = DictSet(@, name, [_raw |-> line, body |-> <<>>])])

\* if self._options.get(self.curr_sect_name) is None: ... = {}
EnsureOptions(self) ==
    IF DictHas(self._options, self.curr_sect_name) THEN self
    ELSE [self EXCEPT !._options = DictSet(@, self.curr_sect_name, <<>>)]

\* _parse_option(line)
_parse_option(self, line) ==
    LET s1 == EnsureOptions([self EXCEPT !.in_option_block = FALSE])
        curr == s1.curr_sect_name
        option == Strip(OptionName(line))
        value == Strip(_OPTION_RE_group2(line))
        opts == DictGet(s1._options, curr)
        s2 == [s1 EXCEPT !._options = DictSet(@, curr, DictSet(opts, option, Str(value)))]
    IN  IF DictHas(opts, option) THEN Raise(s1, "DuplicateOptionError")
        ELSE _add_option_to_section_body(s2, option, value, line)

\* the loop of _parse_multiline_option over the section body: every entry
\* named curr_ml_opt becomes multiline and takes the line (there is no break)
MarkBody(body, curr_ml_opt, line, keep) ==
    [i \in 1..Len(body) |->
        IF body[i].option = curr_ml_opt
        THEN [body[i] EXCEPT
                 !.is_multiline = TRUE,
                 !._raw_value = Append(@, line),
                 !.value = IF keep THEN Append(@, Strip(line)) ELSE @]
        ELSE body[i]]

\* _parse_multiline_option(curr_ml_opt, line)
_parse_multiline_option(self, curr_ml_opt, line) ==
    LET s1 == EnsureOptions(self)
        curr == s1.curr_sect_name
        opts == DictGet(s1._options, curr)
        opts2 == IF DictHas(opts, curr_ml_opt) THEN opts
                 ELSE DictSet(opts, curr_ml_opt, List(<<>>))
        s2 == [s1 EXCEPT !._options = DictSet(@, curr, opts2)]
        _cleaned_line == Strip(line)
        keep == _cleaned_line # <<>> /\ ~_is_comment(line)
        old == DictGet(opts2, curr_ml_opt)
        s3 == IF keep
              THEN [s2 EXCEPT !._options = DictSet(@, curr,
                        DictSet(opts2, curr_ml_opt, List(Append(old.l, _cleaned_line))))]
              ELSE s2
        sec == DictGet(s3._config, curr)
    IN  IF keep /\ old.t = "str" THEN Raise(s2, "AttributeError")
        ELSE IF ~DictHas(s3._config, curr) THEN Raise(s3, "KeyError")
        ELSE Ok([s3 EXCEPT !._config = DictSet(@, curr,
                    [sec EXCEPT !.body = MarkBody(@, curr_ml_opt, line, keep)])])

\* _parse_comment that appends every comment and blank line to the header
_parse_comment_to_header(self, line) ==
    Ok([self EXCEPT !.in_option_block = FALSE, !._header = Append(@, line)])

\* _parse_comment(line)
_parse_comment(self, line) ==
    LET s1 == [self EXCEPT !.in_option_block = FALSE]
    IN  IF s1.curr_sect_name = <<>>
        THEN Ok([s1 EXCEPT !._header = Append(@, line)])
        ELSE _add_option_to_section_body(s1, <<>>, <<>>, line)

\* one iteration of the loop of _parse_config, for one line; multi is the
\* local _curr_multi_opt.  The result carries the local's new value.
_parse_config(self, multi, line) ==
    LET name == Strip(OptionName(line))
        With(r, m) == [self |-> r.self, exc |-> r.exc, multi |-> m]
    IN  IF _is_section(line) THEN With(_parse_section(self, line), multi)
        ELSE IF _is_option(line) THEN With(_parse_option(self, line), multi)
        ELSE IF _is_multiline_option(line)
        THEN With(_add_option_to_section_body(
                      [self EXCEPT !.in_option_block = TRUE], name, <<>>, line), name)
        ELSE IF self.in_option_block
        THEN With(_parse_multiline_option(self, multi, line), multi)
        ELSE IF _is_comment(line) \/ _is_empty_line(line)
        THEN With(_parse_comment(self, line), multi)
        ELSE With(Ok(self), multi)

(***************************************************************************)
(* The mutation methods.                                                   *)
(***************************************************************************)

\* add_section(section)
add_section(self, section) ==
    IF InList(section, self._sections) THEN Raise(self, "DuplicateSectionError")
    ELSE Ok([self EXCEPT
                !._sections = Append(@, section),
                !._options = DictSet(@, section, <<>>),
                !._config = DictSet(@, section,
                    [_raw |-> <<NL, "[">> \o section \o <<"]", NL>>, body |-> <<>>])])

\* the index of the first occurrence of x in lst: lst.index(x)
ListIndex(lst, x) == CHOOSE i \in 1..Len(lst) :
                        lst[i] = x /\ \A j \in 1..(i - 1) : lst[j] # x

\* remove_section(section): the three del statements run in order, and a
\* KeyError of the second or third leaves the earlier ones done
remove_section(self, section) ==
    LET s1 == [self EXCEPT !._sections = DelAt(@, ListIndex(@, section))]
        s2 == [s1 EXCEPT !._options = DictDel(@, section)]
        s3 == [s2 EXCEPT !._config = DictDel(@, section)]
    IN  IF ~InList(section, self._sections) THEN Raise(self, "NoSectionError")
        ELSE IF ~DictHas(s1._options, section) THEN Raise(s1, "KeyError")
        ELSE IF ~DictHas(s2._config, section) THEN Raise(s2, "KeyError")
        ELSE Ok(s3)

\* "\n" in value
HasBreak(value) == \E i \in 1..Len(value) : value[i] = NL

\* the entry set() builds from its arguments (lines 253-262)
SetEntry(option, value, multiline, indent) ==
    IF multiline \/ HasBreak(value)
    THEN [is_multiline |-> TRUE, option |-> option,
          value |-> Split(value),
          _raw |-> option \o <<":", NL>>,
          _raw_value |-> [i \in 1..Len(Split(value)) |->
                             Spaces(indent) \o Split(value)[i] \o <<NL>>]]
    ELSE [is_multiline |-> FALSE, option |-> option,
          value |-> <<value>>,
          _raw |-> option \o <<":", " ">> \o value \o <<NL>>,
          _raw_value |-> <<value \o <<NL>>>>]

\* the index of the first body entry named option, 0 if there is none
BodyIndex(body, option) ==
    IF \E i \in 1..Len(body) : body[i].option = option
    THEN CHOOSE i \in 1..Len(body) :
            body[i].option = option /\ \A j \in 1..(i - 1) : body[j].option # option
    ELSE 0

\* the update loop of set (lines 277-282): the first entry named option
\* takes the new value, _raw and _raw_value; is_multiline is not assigned
UpdateBody(body, e) ==
    IF BodyIndex(body, e.option) = 0 THEN body
    ELSE [body EXCEPT ![BodyIndex(body, e.option)] =
             [@ EXCEPT !.value = e.value, !._raw = e._raw, !._raw_value = e._raw_value]]

\* set(section, option, value, multiline, indent)
set(self, section, option, value, multiline, indent) ==
    LET e == SetEntry(option, value, multiline, indent)
        opts == DictGet(self._options, section)
        sec == DictGet(self._config, section)
        body2 == IF ~DictHas(opts, option) THEN Append(sec.body, e)
                 ELSE UpdateBody(sec.body, e)
    IN  IF ~InList(section, self._sections) THEN Raise(self, "NoSectionError")
        ELSE IF ~DictHas(self._options, section) THEN Raise(self, "TypeError")
        ELSE IF ~DictHas(self._config, section) THEN Raise(self, "KeyError")
        ELSE Ok([self EXCEPT
                    !._config = DictSet(@, section, [sec EXCEPT !.body = body2]),
                    !._options = DictSet(@, section, DictSet(opts, option, List(e.value)))])

\* remove_option(section, option)
remove_option(self, section, option) ==
    LET opts == DictGet(self._options, section)
        sec == DictGet(self._config, section)
        i == BodyIndex(sec.body, option)
    IN  IF ~InList(section, self._sections) THEN Raise(self, "NoSectionError")
        ELSE IF ~DictHas(self._options, section) THEN Raise(self, "TypeError")
        ELSE IF ~DictHas(opts, option) THEN Raise(self, "NoOptionError")
        ELSE IF ~DictHas(self._config, section) THEN Raise(self, "KeyError")
        ELSE IF i = 0 THEN Ok(self)
        ELSE Ok([self EXCEPT
                    !._options = DictSet(@, section, DictDel(opts, option)),
                    !._config = DictSet(@, section, [sec EXCEPT !.body = DelAt(@, i)])])

(***************************************************************************)
(* The accessors: they read the object and change nothing.                 *)
(***************************************************************************)

\* what a call gives back: the value returned, or the exception raised
Return(v) == [exc |-> "none", val |-> v]
Throw(e) == [exc |-> e, val |-> _UNSET]

\* sections()
sections(self) == self._sections

\* has_section(section)
has_section(self, section) == InList(section, self._sections)

\* has_option(section, option): "in None" is a TypeError
has_option(self, section, option) ==
    IF ~DictHas(self._options, section) THEN Throw("TypeError")
    ELSE Return(DictHas(DictGet(self._options, section), option))

\* items(section): the list of the (option, value) tuples of the section's
\* dict in _options; self._options[section] is a KeyError without one
items(self, section) ==
    IF ~InList(section, self._sections) THEN Throw("NoSectionError")
    ELSE IF ~DictHas(self._options, section) THEN Throw("KeyError")
    ELSE LET d == DictGet(self._options, section)
         IN  Return(List([i \in 1..Len(d) |-> <<d[i].k, d[i].v>>]))

\* the objects options() can return: None, or the dict of a section
None == [t |-> "None", d |-> <<>>]
Dict(d) == [t |-> "dict", d |-> d]

\* options(section): self._options.get(section), the dict of the section
\* itself or None, and no test of the section name
options(self, section) ==
    IF DictHas(self._options, section)
    THEN Return(Dict(DictGet(self._options, section)))
    ELSE Return(None)

\* the try block of get (lines 162-168)
GetTry(self, section, option) ==
    IF ~InList(section, self._sections) THEN Throw("NoSectionError")
    ELSE IF ~DictHas(self._options, section) THEN Throw("TypeError")
    ELSE IF ~DictHas(DictGet(self._options, section), option) THEN Throw("NoOptionError")
    ELSE Return(DictGet(DictGet(self._options, section), option))

\* get(section, option, fallback): the except clause re-raises when a
\* fallback was given and returns the fallback (the sentinel) when none was
get(self, section, option, fallback) ==
    LET r == GetTry(self, section, option)
    IN  IF r.exc \in {"NoSectionError", "NoOptionError"}
        THEN IF fallback # _UNSET THEN r ELSE Return(fallback)
        ELSE r

(***************************************************************************)
(* The converting accessors getint, getfloat and getboolean, with the      *)
(* built-ins int(), float() and str.lower() they call.                     *)
(***************************************************************************)

\* the numbers and booleans the conversions produce: an int; a bool; a
\* float, finite with the exact decimal value m / 10^e (m not divisible by
\* 10 unless e = 0), or one of inf, -inf, nan
Integer(n) == [t |-> "int", n |-> n]
Bool(b) == [t |-> "bool", b |-> b]
Float(k, m, e) == [t |-> "float", k |-> k, m |-> m, e |-> e]

IsDigit(c) == \E i \in 1..10 : Digits[i] = c
DigitVal(c) == (CHOOSE i \in 1..10 : Digits[i] = c) - 1

\* str.lower(), on ASCII text
lower(s) ==
    [i \in 1..Len(s) |->
        IF \E j \in 1..26 : UpperCase[j] = s[i]
        THEN LowerCase[CHOOSE j \in 1..26 : UpperCase[j] = s[i]]
        ELSE s[i]]

\* a digit part of a numeric literal: digits, with single underscores
\* allowed between two digits
IsDigits(s) ==
    /\ s # <<>>
    /\ \A i \in 1..Len(s) :
          \/ IsDigit(s[i])
          \/ /\ s[i] = "_" /\ 1 < i /\ i < Len(s)
             /\ IsDigit(s[i - 1]) /\ IsDigit(s[i + 1])

\* the number a digit part denotes
RECURSIVE DigitsValue(_)
DigitsValue(s) ==
    IF s = <<>> THEN 0
    ELSE IF s[Len(s)] = "_" THEN DigitsValue(SubSeq(s, 1, Len(s) - 1))
    ELSE DigitsValue(SubSeq(s, 1, Len(s) - 1)) * 10 + DigitVal(s[Len(s)])

\* a literal without its sign, and the factor its sign stands for
Unsigned(s) == IF s # <<>> /\ s[1] \in {"+", "-"} THEN Tail(s) ELSE s
Sign(s) == IF s # <<>> /\ s[1] = "-" THEN -1 ELSE 1

\* a ValueError whose message names a value and a target type
ValueError(value, target) ==
    [exc |-> "ValueError", val |-> _UNSET, value |-> value, target |-> target]

\* int(text): surrounding whitespace, a sign, a digit part; otherwise
\* ValueError("invalid literal for int() with base 10: text")
int_of_str(text) ==
    LET u == Unsigned(Strip(text))
    IN  IF IsDigits(u) THEN Return(Integer(Sign(Strip(text)) * DigitsValue(u)))
        ELSE ValueError(text, "int")

RECURSIVE Pow10(_)
Pow10(n) == IF n = 0 THEN 1 ELSE 10 * Pow10(n - 1)

\* the finite float of value m / 10^e, e any integer
RECURSIVE Finite(_, _)
Finite(m, e) ==
    IF m = 0 THEN Float("finite", 0, 0)
    ELSE IF e < 0 THEN Float("finite", m * Pow10(0 - e), 0)
    ELSE IF e > 0 /\ m % 10 = 0 THEN Finite(m \div 10, e - 1)
    ELSE Float("finite", m, e)

\* the index of the first character of s that is in chars (Len(s)+1 if none)
RECURSIVE Find(_, _, _)
Find(s, chars, i) ==
    IF i <= Len(s) /\ s[i] \notin chars THEN Find(s, chars, i + 1) ELSE i

\* float(text): surrounding whitespace, a sign, then inf, infinity or nan in
\* any case, or a decimal literal: digit parts around an optional point (one
\* of them may be missing) and an optional exponent.  The value is the exact
\* decimal value; rounding to binary64, overflow to inf and the sign of zero
\* are left out.  Otherwise ValueError("could not convert string to float:
\* text").
float_of_str(text) ==
    LET u == Unsigned(Strip(text))
        sg == Sign(Strip(text))
        x == Find(u, {"e", "E"}, 1)
        mant == SubSeq(u, 1, x - 1)
        expo == SubSeq(u, x + 1, Len(u))
        p == Find(mant, {"."}, 1)
        ip == SubSeq(mant, 1, p - 1)
        fp == SubSeq(mant, p + 1, Len(mant))
        fd == SelectSeq(fp, IsDigit)
        ex == IF x > Len(u) THEN 0 ELSE Sign(expo) * DigitsValue(Unsigned(expo))
    IN  IF lower(u) \in {<<"i", "n", "f">>, <<"i", "n", "f", "i", "n", "i", "t", "y">>}
        THEN Return(Float(IF sg = 1 THEN "inf" ELSE "-inf", 0, 0))
        ELSE IF lower(u) = <<"n", "a", "n">> THEN Return(Float("nan", 0, 0))
        ELSE IF /\ (ip # <<>> \/ fp # <<>>)
                /\ (ip # <<>> => IsDigits(ip))
                /\ (fp # <<>> => IsDigits(fp))
                /\ (x <= Len(u) => IsDigits(Unsigned(expo)))
        THEN Return(Finite(sg * (DigitsValue(ip) * Pow10(Len(fd)) + DigitsValue(fd)),
                           Len(fd) - ex))
        ELSE ValueError(text, "float")

\* int(v): a str is parsed, a number is taken as it is or truncated towards
\* zero, a list and the sentinel object are a TypeError
int(v) ==
    CASE v.t = "str" -> int_of_str(v.s)
      [] v.t = "int" -> Return(v)
      [] v.t = "bool" -> Return(Integer(IF v.b THEN 1 ELSE 0))
      [] v.t = "float" ->
            IF v.k = "finite"
            THEN Return(Integer(IF v.m < 0 THEN 0 - ((0 - v.m) \div Pow10(v.e))
                                ELSE v.m \div Pow10(v.e)))
            ELSE IF v.k = "nan" THEN ValueError(<<"n", "a", "n">>, "int")
            ELSE Throw("OverflowError")
      [] OTHER -> Throw("TypeError")

\* float(v)
float(v) ==
    CASE v.t = "str" -> float_of_str(v.s)
      [] v.t = "int" -> Return(Finite(v.n, 0))
      [] v.t = "bool" -> Return(Finite(IF v.b THEN 1 ELSE 0, 0))
      [] v.t = "float" -> Return(v)
      [] OTHER -> Throw("TypeError")

\* BOOLEAN_STATES
BOOLEAN_STATES == <<
    [k |-> <<"1">>, v |-> TRUE],
    [k |-> <<"y", "e", "s">>, v |-> TRUE],
    [k |-> <<"t", "r", "u", "e">>, v |-> TRUE],
    [k |-> <<"o", "n">>, v |-> TRUE],
    [k |-> <<"0">>, v |-> FALSE],
    [k |-> <<"n", "o">>, v |-> FALSE],
    [k |-> <<"f", "a", "l", "s", "e">>, v |-> FALSE],
    [k |-> <<"o", "f", "f">>, v |-> FALSE] >>

\* _convert_to_boolean with the keys of BOOLEAN_STATES looked up as written,
\* without lower()
_convert_to_boolean_as_written(value) ==
    IF value.t # "str" THEN Throw("AttributeError")
    ELSE IF ~DictHas(BOOLEAN_STATES, value.s) THEN ValueError(value.s, "boolean")
    ELSE Return(Bool(DictGet(BOOLEAN_STATES, value.s)))

\* _convert_to_boolean(value): only a str has .lower; a str that is no key
\* of BOOLEAN_STATES is ValueError("Not a boolean: value")
_convert_to_boolean(value) ==
    IF value.t # "str" THEN Throw("AttributeError")
    ELSE IF ~DictHas(BOOLEAN_STATES, lower(value.s))
    THEN ValueError(value.s, "boolean")
    ELSE Return(Bool(DictGet(BOOLEAN_STATES, lower(value.s))))

\* conv(value), for the callable that _get_conv is passed: conv is its name
Call(conv, value) ==
    CASE conv = "int" -> int(value)
      [] conv = "float" -> float(value)
      [] conv = "_convert_to_boolean" -> _convert_to_boolean(value)

\* _get_conv(section, option, conv, fallback): the bare except catches every
\* exception of get and of conv
_get_conv(self, section, option, conv, fallback) ==
    LET r == get(self, section, option, fallback)
        c == IF r.exc # "none" THEN r ELSE Call(conv, r.val)
    IN  IF c.exc = "none" THEN c
        ELSE IF fallback # _UNSET THEN Return(fallback)
        ELSE c

\* getint(section, option, fallback)
getint(self, section, option, fallback) ==
    _get_conv(self, section, option, "int", fallback)

\* getfloat(section, option, fallback): the conversion it passes is int
getfloat(self, section, option, fallback) ==
    _get_conv(self, section, option, "int", fallback)

\* getboolean(section, option, fallback)
getboolean(self, section, option, fallback) ==
    _get_conv(self, section, option, "_convert_to_boolean", fallback)

\* the text of one body entry in write (lines 115-117)
EntryText(e) == e._raw \o (IF e.is_multiline THEN Join(e._raw_value) ELSE <<>>)

\* the text write() hands to f.write
write(self) ==
    Join(self._header)
    \o Join([i \in 1..Len(self._config) |->
                self._config[i].v._raw
                \o Join([j \in 1..Len(self._config[i].v.body) |->
                            EntryText(self._config[i].v.body[j])])])

(***************************************************************************)
(* The line-at-a-time parser: the class SimpleConfigParser of              *)
(* src/src/simple_config_parser/simple_config_parser.py, fed through       *)
(* _parse_line.  Its patterns and key prefixes come from a constants       *)
(* module; they are modelled from the grammar of the line classifier.      *)
(* Where both classes define a method of one name, the method of this      *)
(* class carries the suffix 2.                                             *)
(***************************************************************************)

\* SECTION_RE: optional whitespace, "[", one word token or two separated by
\* one space, "]", optional whitespace, an optional comment.
\* The index of the closing "]", 0 when the line is no section header.
SECTION_RE_close(s) ==
    LET i == SkipSpace(s, 1)
        j == SkipWord(s, i + 1)
        j2 == SkipWord(s, j + 1)
        c == IF ~(i <= Len(s) /\ s[i] = "[") \/ j = i + 1 THEN 0
             ELSE IF j <= Len(s) /\ s[j] = "]" THEN j
             ELSE IF j <= Len(s) /\ s[j] = " " /\ j2 > j + 1
                     /\ j2 <= Len(s) /\ s[j2] = "]" THEN j2
             ELSE 0
        r == SkipSpace(s, c + 1)
    IN  IF c # 0 /\ (r = Len(s) + 1 \/ s[r] \in {"#", ";"}) THEN c ELSE 0

\* group(1) of SECTION_RE: the name between the brackets
SECTION_RE_group1(s) == SubSeq(s, SkipSpace(s, 1) + 1, SECTION_RE_close(s) - 1)

\* the index of the ":" or "=" that follows the leading word token of the
\* line, 0 when the line does not start with a word token and a delimiter
Delimiter(s) ==
    LET i == SkipSpace(s, 1)
        j == SkipWord(s, i)
        d == SkipSpace(s, j)
    IN  IF j > i /\ d <= Len(s) /\ s[d] \in {":", "="} THEN d ELSE 0

\* group(1) of OPTION_RE and of OPTIONS_BLOCK_START_RE: the word token
OPTION_RE_group1(s) == SubSeq(s, SkipSpace(s, 1), SkipWord(s, SkipSpace(s, 1)) - 1)

\* group(2) of OPTION_RE: the text after the delimiter, up to an inline
\* comment, without the whitespace around it
OPTION_RE_group2(s) ==
    Strip(SubSeq(s, Delimiter(s) + 1, Find(s, {"#", ";"}, Delimiter(s) + 1) - 1))

\* _match_section(line)
_match_section(line) == SECTION_RE_close(line) # 0

\* _match_option(line): OPTION_RE, a word token, a delimiter, a space and a
\* value that is not empty
_match_option(line) ==
    /\ Delimiter(line) # 0
    /\ Delimiter(line) < Len(line) /\ line[Delimiter(line) + 1] = " "
    /\ OPTION_RE_group2(line) # <<>>

\* _match_options_block_start(line): OPTIONS_BLOCK_START_RE, a word token
\* and a delimiter followed by nothing but whitespace or a comment
_match_options_block_start(line) ==
    /\ Delimiter(line) # 0
    /\ OPTION_RE_group2(line) = <<>>

\* _match_line_comment(line): LINE_COMMENT_RE
_match_line_comment(line) ==
    SkipSpace(line, 1) <= Len(line) /\ line[SkipSpace(line, 1)] \in {"#", ";"}

\* _match_empty_line(line): EMPTY_LINE_RE
_match_empty_line(line) == SkipSpace(line, 1) = Len(line) + 1

\* the key of the file header in config, and the prefix of the keys under
\* which runs of comment and blank lines are collected
HEADER_IDENT == <<"#", "_", "h", "e", "a", "d", "e", "r">>
COLLECTOR_IDENT == <<"#", "_", "c", "o", "l", "l", "e", "c", "t", "o", "r", "_">>

\* the key "_raw"
RawKey == <<"_", "r", "a", "w">>

\* what config[section][option] holds: {"_raw": line, "value": value}
OptionRecord(line, value) == [t |-> "option", _raw |-> line, value |-> value]

\* str(n), for n >= 0
RECURSIVE str(_)
str(n) == IF n < 10 THEN <<Digits[n + 1]>> ELSE str(n \div 10) \o <<Digits[(n % 10) + 1]>>

\* name.replace(" ", "_")
replace(name) == [i \in 1..Len(name) |-> IF name[i] = " " THEN "_" ELSE name[i]]

\* prefix is a prefix of s: s.startswith(prefix)
startswith(s, prefix) ==
    Len(prefix) <= Len(s) /\ SubSeq(s, 1, Len(prefix)) = prefix

\* _init_state(): the fields of a fresh object
_init_state ==
    [header |-> <<>>, config |-> <<>>, _count |-> 0, current_section |-> None,
     current_opt_block |-> None, current_collector |-> None,
     in_option_block |-> FALSE]

\* config[current_section][key] = val, a KeyError when current_section is
\* None (no section header was parsed yet)
SetInSection(self, key, val) ==
    IF self.current_section = None THEN Raise(self, "KeyError")
    ELSE Ok([self EXCEPT !.config =
                DictSet(@, self.current_section.s,
                        Dict(DictSet(DictGet(@, self.current_section.s).d, key, val)))])

\* the comment and blank line branch of _parse_line (lines 113-133)
Collect(self, line) ==
    LET s0 == [self EXCEPT !.current_opt_block = None]
        head == IF DictHas(s0.config, HEADER_IDENT)
                THEN DictGet(s0.config, HEADER_IDENT).l ELSE <<>>
        key == COLLECTOR_IDENT \o str(s0._count + 1) \o <<"_">>
                   \o replace(s0.current_section.s)
        s1 == IF s0.current_collector # None THEN s0
              ELSE SetInSection([s0 EXCEPT !._count = @ + 1,
                                           !.current_collector = Str(key)],
                                key, List(<<>>)).self
        sec == DictGet(s1.config, s1.current_section.s).d
    IN  IF s0.current_section = None \/ s0.current_section.s = <<>>
        THEN Ok([s0 EXCEPT !.config =
                    DictSet(@, HEADER_IDENT, List(Append(head, line)))])
        ELSE SetInSection(s1, s1.current_collector.s,
                          List(Append(DictGet(sec, s1.current_collector.s).l, line)))

\* _parse_line(line)
_parse_line(self, line) ==
    IF _match_section(line)
    THEN Ok([self EXCEPT
                !.current_collector = None,
                !.current_opt_block = None,
                !.current_section = Str(SECTION_RE_group1(line)),
                !.config = DictSet(@, SECTION_RE_group1(line),
                                   Dict(<<[k |-> RawKey, v |-> Str(line)]>>))])
    ELSE IF _match_option(line)
    THEN SetInSection([self EXCEPT !.current_collector = None,
                                   !.current_opt_block = None],
                      OPTION_RE_group1(line),
                      OptionRecord(line, Str(OPTION_RE_group2(line))))
    ELSE IF _match_options_block_start(line)
    THEN SetInSection([self EXCEPT !.current_collector = None,
                                   !.current_opt_block = Str(OPTION_RE_group1(line))],
                      OPTION_RE_group1(line),
                      OptionRecord(line, List(<<>>)))
    ELSE IF self.current_opt_block # None
    THEN LET sec == DictGet(self.config, self.current_section.s).d
             old == DictGet(sec, self.current_opt_block.s)
         IN  SetInSection(self, self.current_opt_block.s,
                          [old EXCEPT !.value = List(Append(@.l, line))])
    ELSE IF _match_empty_line(line) \/ _match_line_comment(line)
    THEN Collect(self, line)
    ELSE Ok(self)

\* read_file(file), for a file of the given lines: _init_state(), then
\* _parse_line of every line; an exception leaves the loop
RECURSIVE read_file(_)
read_file(lines) ==
    IF lines = <<>> THEN Ok(_init_state)
    ELSE LET r == read_file(SubSeq(lines, 1, Len(lines) - 1))
         IN  IF r.exc # "none" THEN r ELSE _parse_line(r.self, lines[Len(lines)])

\* get_sections()
get_sections(self) ==
    SelectSeq(DictKeys(self.config), LAMBDA k : k \notin {HEADER_IDENT, COLLECTOR_IDENT})

\* get_options(section), for a section that get_sections() holds
get_options(self, section) ==
    SelectSeq(DictKeys(DictGet(self.config, section).d),
              LAMBDA k : k # RawKey /\ ~startswith(k, COLLECTOR_IDENT))

\* getval(section, option, fallback)
getval(self, section, option, fallback) ==
    LET r == IF ~InList(section, get_sections(self)) THEN Throw("NoSectionError")
             ELSE IF ~InList(option, get_options(self, section))
             THEN Throw("NoOptionError")
             ELSE Return(DictGet(DictGet(self.config, section).d, option).value)
    IN  IF r.exc # "none" /\ fallback # _UNSET THEN Return(fallback) ELSE r

\* _convert_to_boolean(value) of the line-at-a-time parser: a bool is
\* returned as it is
_convert_to_boolean2(value) ==
    IF value.t = "bool" THEN Return(value) ELSE _convert_to_boolean(value)

\* str(value) in the message of _get_conv: the text of a str; the repr of a
\* list is not spelled out, only the lines it holds
TextOf(value) == IF value.t = "str" THEN value.s ELSE Join(value.l)

\* conv(value), for the callable that _get_conv of the line-at-a-time parser
\* is passed: conv is its name, conv.__name__
Call2(conv, value) ==
    CASE conv = "int" -> int(value)
      [] conv = "float" -> float(value)
      [] conv = "_convert_to_boolean" -> _convert_to_boolean2(value)

\* _get_conv(section, option, conv, fallback) of the line-at-a-time parser:
\* only a ValueError is caught, and without a fallback it is replaced by
\* ValueError("Cannot convert <value> to <conv.__name__>")
_get_conv2(self, section, option, conv, fallback) ==
    LET r == getval(self, section, option, fallback)
        c == IF r.exc # "none" THEN r ELSE Call2(conv, r.val)
    IN  IF c.exc # "ValueError" THEN c
        ELSE IF fallback # _UNSET THEN Return(fallback)
        ELSE ValueError(TextOf(getval(self, section, option, _UNSET).val), conv)

\* getint(section, option, fallback)
getint2(self, section, option, fallback) ==
    _get_conv2(self, section, option, "int", fallback)

\* getfloat(section, option, fallback)
getfloat2(self, section, option, fallback) ==
    _get_conv2(self, section, option, "float", fallback)

\* getboolean(section, option, fallback)
getboolean2(self, section, option, fallback) ==
    _get_conv2(self, section, option, "_convert_to_boolean", fallback)

(***************************************************************************)
(* The state machine: one parser object, one _parse_config call fed line   *)
(* by line on the fresh object, then calls of the mutation methods.  A    *)
(* second _parse_config call on the same object is not modelled.  A run   *)
(* may instead feed its lines to an object of the line-at-a-time parser.  *)
(***************************************************************************)
VARIABLES
    _config,          \* self._config
    _header,          \* self._header
    _sections,        \* self._sections
    _options,         \* self._options
    curr_sect_name,   \* self.curr_sect_name
    in_option_block,  \* self.in_option_block
    _curr_multi_opt,  \* the local of _parse_config
    content,          \* the lines the loop of _parse_config has consumed
    pc,               \* "parse": in the loop; "ready": _parse_config returned;
                      \* "raised": _parse_config or _parse_line was left by an
                      \* exception; "feed": the lines go to _parse_line
    exc,              \* the exception that left the last step or call, or "none"
    last,             \* the last mutation call and its arguments
    prev,             \* the object's fields before the last step or call
    limit,            \* the number of lines this run may feed
    nops,             \* the number of mutation calls made
    parser,           \* the fields of the line-at-a-time parser object
    source            \* the lines the run's document is drawn from

vars == <<_config, _header, _sections, _options, curr_sect_name, in_option_block,
          _curr_multi_opt, content, pc, exc, last, prev, limit, nops, parser, source>>

\* the object's fields as one record
Self == [_config |-> _config, _header |-> _header, _sections |-> _sections,
         _options |-> _options, curr_sect_name |-> curr_sect_name,
         in_option_block |-> in_option_block]

\* the object's fields become those of the record s
Becomes(s) ==
    /\ _config' = s._config
    /\ _header' = s._header
    /\ _sections' = s._sections
    /\ _options' = s._options
    /\ curr_sect_name' = s.curr_sect_name
    /\ in_option_block' = s.in_option_block

\* the lines a run draws from: two section headers, two single-line options,
\* a multiline start, a continuation line, a comment and a blank line
Lines == {
    <<"[", "a", "b", "]", NL>>,
    <<"[", "c", "d", "]", NL>>,
    <<"k", ":", " ", "v", NL>>,
    <<"j", "=", "w", "w", NL>>,
    <<"k", ":", NL>>,
    <<" ", "a", NL>>,
    <<"#", "c", NL>>,
    <<NL>> }

\* the lines of a document of typed values: a section header, one option
\* with each of the eight boolean tokens in some spelling, with integer and
\* decimal literals and with other text, a multiline start and a
\* continuation line
ValueLines == {
    <<"[", "a", "b", "]", NL>>,
    <<"k", ":", " ", "1", NL>>,
    <<"k", ":", " ", "y", "e", "s", NL>>,
    <<"k", ":", " ", "T", "r", "u", "e", NL>>,
    <<"k", ":", " ", "O", "N", NL>>,
    <<"k", ":", " ", "0", NL>>,
    <<"k", ":", " ", "N", "o", NL>>,
    <<"k", ":", " ", "f", "a", "l", "s", "e", NL>>,
    <<"k", ":", " ", "o", "F", "F", NL>>,
    <<"k", ":", " ", "-", "1", "2", NL>>,
    <<"k", ":", " ", "1", ".", "5", NL>>,
    <<"k", ":", " ", "x", NL>>,
    <<"k", ":", " ", "y", "e", "s", "s", NL>>,
    <<"j", ":", NL>>,
    <<" ", "1", NL>> }

\* the lines fed to the line-at-a-time parser: two section headers, two
\* single-line options, an option whose name is the key of the raw header
\* line, a multiline start of the first option's name, a line of no class,
\* a comment and a blank line
FeedLines == {
    <<"[", "a", "b", "]", NL>>,
    <<"[", "c", "d", "]", NL>>,
    <<"k", ":", " ", "v", NL>>,
    <<"j", ":", " ", "w", NL>>,
    <<"_", "r", "a", "w", ":", " ", "v", NL>>,
    <<"k", ":", NL>>,
    <<" ", "a", NL>>,
    <<"#", "c", NL>>,
    <<NL>> }

\* the lines whose classification is examined: section headers of one and
\* two tokens, of a one-letter name, of three tokens, with another character,
\* with surrounding whitespace and a comment, with a "|" after the bracket,
\* bracketed names followed by a delimiter and text; option lines with and
\* without spaces around the delimiter and with an inline comment, a
\* multiline start and a comment
ClassLines == {
    <<"[", "a", "b", "]", NL>>,
    <<"[", "x", "]", NL>>,
    <<"[", "a", " ", "b", "]", NL>>,
    <<"[", "a", " ", "b", " ", "c", "]", NL>>,
    <<"[", "a", "-", "b", "]", NL>>,
    <<" ", "[", "a", "b", "]", " ", ";", "c", NL>>,
    <<"[", "a", "b", "]", " ", "|", "c", NL>>,
    <<"[", "x", "]", ":", " ", "y", NL>>,
    <<"[", "a", "b", "]", ":", " ", "y", NL>>,
    <<"o", ":", " ", "v", NL>>,
    <<"o", " ", ":", " ", "v", NL>>,
    <<"o", " ", ":", "v", NL>>,
    <<"o", " ", ":", "v", "w", NL>>,
    <<"o", " ", "=", "v", "w", NL>>,
    <<"o", ":", " ", "v", " ", "#", " ", "c", NL>>,
    <<"o", ":", NL>>,
    <<"#", "c", NL>> }

\* the arguments the mutation methods are called with
SectionArgs == {<<"a", "b">>, <<"c", "d">>}
OptionArgs == {<<"k">>, <<"j">>}
ValueArgs == {<<"w">>, <<"x", NL, "y">>}
IndentArgs == {1, 2}

NoCall == [op |-> "none", section |-> <<>>, option |-> <<>>, value |-> <<>>,
           multiline |-> FALSE, indent |-> 0]

InitWith(n, pool) ==
    /\ _config = __init__._config
    /\ _header = __init__._header
    /\ _sections = __init__._sections
    /\ _options = __init__._options
    /\ curr_sect_name = __init__.curr_sect_name
    /\ in_option_block = __init__.in_option_block
    /\ _curr_multi_opt = <<>>
    /\ content = <<>>
    /\ pc = "parse"
    /\ exc = "none"
    /\ last = NoCall
    /\ prev = __init__
    /\ limit = n
    /\ nops = 0
    /\ parser = _init_state
    /\ source = pool

\* a parser object to be fed a document and then mutated
Init == InitWith(MaxDocLines, Lines)

\* a parser object to be fed a longer document
InitParse == InitWith(MaxLines, Lines)

\* a parser object to be fed a document of typed values
InitConv == InitWith(MaxConvLines, ValueLines)

\* a parser object to be fed a short document of the lines to classify
InitClass == InitWith(MaxClassLines, ClassLines)

\* an object of the line-at-a-time parser to be fed a document
InitFeed == InitWith(MaxFeedLines, FeedLines)

\* the loop of _parse_config takes the next line of its argument
ParseLine ==
    /\ pc = "parse"
    /\ Len(content) < limit
    /\ \E line \in source :
        LET r == _parse_config(Self, _curr_multi_opt, line)
        IN  /\ Becomes(r.self)
            /\ _curr_multi_opt' = r.multi
            /\ content' = Append(content, line)
            /\ exc' = r.exc
            /\ pc' = IF r.exc = "none" THEN "parse" ELSE "raised"
    /\ prev' = Self
    /\ UNCHANGED <<last, limit, nops, parser, source>>

\* the run's next line is fed to _parse_line of the line-at-a-time parser;
\* a run feeds one of the two objects only; last forgets the call before it
FeedLine ==
    /\ pc = "feed" \/ (pc = "parse" /\ content = <<>>)
    /\ Len(content) < limit
    /\ \E line \in source :
        LET r == _parse_line(parser, line)
        IN  /\ parser' = r.self
            /\ content' = Append(content, line)
            /\ exc' = r.exc
            /\ pc' = IF r.exc = "none" THEN "feed" ELSE "raised"
    /\ last' = NoCall
    /\ UNCHANGED <<_config, _header, _sections, _options, curr_sect_name,
                   in_option_block, _curr_multi_opt, prev, limit, nops, source>>

\* getval is called on the line-at-a-time parser between two lines: the call
\* is recorded in last (its fallback as value) and its exception in exc; the
\* code of getval, get_sections and get_options assigns no field
GetVal ==
    /\ pc = "feed"
    /\ \E section \in SectionArgs, option \in {<<"j">>},
          fallback \in {_UNSET, Str(<<"f">>)} :
        /\ exc' = getval(parser, section, option, fallback).exc
        /\ last' = [NoCall EXCEPT !.op = "getval", !.section = section,
                                  !.option = option, !.value = fallback]
    /\ UNCHANGED <<_config, _header, _sections, _options, curr_sect_name,
                   in_option_block, _curr_multi_opt, content, pc, prev, limit,
                   nops, parser, source>>

\* the argument of _parse_config is exhausted and the call returns
ParseReturn ==
    /\ pc = "parse"
    /\ pc' = "ready"
    /\ UNCHANGED <<_config, _header, _sections, _options, curr_sect_name,
                   in_option_block, _curr_multi_opt, content, exc, last, prev,
                   limit, nops, parser, source>>

\* the mutation methods, called on the parsed document: each call records
\* its arguments in last, its exception in exc and the fields before it in prev
AddSection ==
    /\ pc = "ready"
    /\ nops < MaxOps
    /\ \E section \in SectionArgs :
        LET r == add_section(Self, section)
        IN  /\ Becomes(r.self)
            /\ exc' = r.exc
            /\ last' = [NoCall EXCEPT !.op = "add_section", !.section = section]
    /\ prev' = Self
    /\ nops' = nops + 1
    /\ UNCHANGED <<_curr_multi_opt, content, pc, limit, parser, source>>

RemoveSection ==
    /\ pc = "ready"
    /\ nops < MaxOps
    /\ \E section \in SectionArgs :
        LET r == remove_section(Self, section)
        IN  /\ Becomes(r.self)
            /\ exc' = r.exc
            /\ last' = [NoCall EXCEPT !.op = "remove_section", !.section = section]
    /\ prev' = Self
    /\ nops' = nops + 1
    /\ UNCHANGED <<_curr_multi_opt, content, pc, limit, parser, source>>

Set ==
    /\ pc = "ready"
    /\ nops < MaxOps
    /\ \E section \in SectionArgs, option \in OptionArgs, value \in ValueArgs,
          multiline \in BOOLEAN, indent \in IndentArgs :
        LET r == set(Self, section, option, value, multiline, indent)
        IN  /\ Becomes(r.self)
            /\ exc' = r.exc
            /\ last' = [op |-> "set", section |-> section, option |-> option,
                        value |-> value, multiline |-> multiline, indent |-> indent]
    /\ prev' = Self
    /\ nops' = nops + 1
    /\ UNCHANGED <<_curr_multi_opt, content, pc, limit, parser, source>>

RemoveOption ==
    /\ pc = "ready"
    /\ nops < MaxOps
    /\ \E section \in SectionArgs, option \in OptionArgs :
        LET r == remove_option(Self, section, option)
        IN  /\ Becomes(r.self)
            /\ exc' = r.exc
            /\ last' = [NoCall EXCEPT !.op = "remove_option", !.section = section,
                                      !.option = option]
    /\ prev' = Self
    /\ nops' = nops + 1
    /\ UNCHANGED <<_curr_multi_opt, content, pc, limit, parser, source>>

NextParse == ParseLine \/ ParseReturn

Next == ParseLine \/ ParseReturn \/ AddSection \/ RemoveSection \/ Set \/ RemoveOption

\* parse, then mutate
Spec == Init /\ [][Next]_vars

\* parse only, on longer documents
SpecParse == InitParse /\ [][NextParse]_vars

NextConv == ParseLine \/ ParseReturn \/ FeedLine

\* a document of typed values, parsed by one of the two parsers
SpecConv == InitConv /\ [][NextConv]_vars

\* the lines to classify, parsed by _parse_config
SpecClass == InitClass /\ [][NextParse]_vars

NextFeed == FeedLine \/ GetVal

\* a document fed to the line-at-a-time parser, with getval calls in between
SpecFeed == InitFeed /\ [][NextFeed]_vars

(***************************************************************************)
(* Vocabulary of the properties.                                           *)
(***************************************************************************)

\* the document is the one _parse_config built: no mutation call was made
Parsed == pc = "ready" /\ nops = 0

\* the option entries of a section body: the entries that carry a name
\* (comment and blank lines are stored under the empty name)
OptionEntries(body) == SelectSeq(body, LAMBDA e : e.option # <<>>)

\* the names of the option entries of a body
BodyNames(body) == {body[i].option : i \in {j \in 1..Len(body) : body[j].option # <<>>}}

\* the lookup index of a section: its dict in _options, empty when it has none
Lookup(self, section) ==
    IF DictHas(self._options, section) THEN DictGet(self._options, section) ELSE <<>>

\* the names the lookup index holds for a section
LookupNames(self, section) ==
    {Lookup(self, section)[i].k : i \in 1..Len(Lookup(self, section))}

\* the value v of the lookup index is the value a body entry holds
SameValue(v, e) == IF v.t = "str" THEN e.value = <<v.s>> ELSE e.value = v.l

\* C1: Round trip: after _parse_config returned and before any mutation,
\* write() emits exactly the concatenation of the input lines.
C1_RoundTrip == Parsed => write(Self) = Join(content)

\* C2: In every state in which _parse_config has returned, whatever mutation
\* calls followed, the lookup index and the bodies agree: per section the
\* names of the index are the names of the option entries of the body, and
\* each looked-up value is the value of its body entry.
C2_IndexMirrorsBody ==
    pc = "ready" =>
        \A i \in 1..Len(_config) :
            LET section == _config[i].k
                body == _config[i].v.body
            IN  /\ LookupNames(Self, section) = BodyNames(body)
                /\ \A j \in 1..Len(body) :
                      body[j].option # <<>> =>
                          /\ DictHas(Lookup(Self, section), body[j].option)
                          /\ SameValue(DictGet(Lookup(Self, section), body[j].option),
                                       body[j])

\* no element occurs twice in the list
Distinct(lst) == \A i, j \in 1..Len(lst) : lst[i] = lst[j] => i = j

\* C3: In every state in which _parse_config has returned, whatever mutation
\* calls followed, sections() holds no name twice and no section body holds
\* two option entries of the same name.
C3_NamesUnique ==
    pc = "ready" =>
        /\ Distinct(sections(Self))
        /\ \A i \in 1..Len(_config) :
              LET opts == OptionEntries(_config[i].v.body)
              IN  Distinct([j \in 1..Len(opts) |-> opts[j].option])

\* the fallback value the accessors are given
Fallback == Str(<<"f">>)

\* C4: get(section, option, fallback): when the section or the option is
\* missing and a fallback was supplied, get returns the fallback; without a
\* fallback it raises NoSectionError (section missing) or NoOptionError
\* (option missing); when both exist it returns the stored value, with or
\* without a fallback.
C4_GetFallback ==
    pc = "ready" =>
        \A section \in SectionArgs, option \in OptionArgs :
            LET hasS == has_section(Self, section)
                hasO == hasS /\ option \in LookupNames(Self, section)
                plain == get(Self, section, option, _UNSET)
                withFb == get(Self, section, option, Fallback)
                stored == DictGet(Lookup(Self, section), option)
            IN  /\ ~hasO => withFb = Return(Fallback)
                /\ ~hasS => plain.exc = "NoSectionError"
                /\ (hasS /\ ~hasO) => plain.exc = "NoOptionError"
                /\ hasO => (plain = Return(stored) /\ withFb = Return(stored))

\* the line the loop of _parse_config took last
LastLine == content[Len(content)]

\* the body a section has in the fields s (empty when s stores no such section)
BodyOf(s, section) ==
    IF DictHas(s._config, section) THEN DictGet(s._config, section).body ELSE <<>>

\* the last step parsed a section header whose name was already in sections()
DuplicateHeaderParsed ==
    /\ nops = 0 /\ content # <<>>
    /\ _is_section(LastLine)
    /\ InList(Strip(_SECTION_RE_group1(LastLine)), prev._sections)

\* C5: Parsing a section header line whose name is already present raises
\* DuplicateSectionError, and the list of sections and every stored section
\* (raw header line and body) are as they were before the line.
C5_DuplicateSectionRaises ==
    DuplicateHeaderParsed =>
        /\ pc = "raised" /\ exc = "DuplicateSectionError"
        /\ _sections = prev._sections
        /\ _config = prev._config

\* C5 happens: a duplicate header was rejected while the earlier definition
\* of that section held body entries
C5_Witness ==
    /\ DuplicateHeaderParsed
    /\ exc = "DuplicateSectionError"
    /\ BodyOf(Self, curr_sect_name) # <<>>

\* the last step parsed an option line whose name the current section's body
\* already defined
DefinedOptionParsed ==
    /\ nops = 0 /\ content # <<>>
    /\ ~_is_section(LastLine) /\ _is_option(LastLine)
    /\ Strip(OptionName(LastLine)) \in BodyNames(BodyOf(prev, prev.curr_sect_name))

\* C6: Parsing an option line whose name is already defined in the current
\* section raises DuplicateOptionError; the first definition keeps its value
\* and raw line and no second body entry of that name is added.
C6_DuplicateOptionRaises ==
    DefinedOptionParsed =>
        /\ pc = "raised" /\ exc = "DuplicateOptionError"
        /\ _config = prev._config
        /\ Lookup(Self, curr_sect_name) = Lookup(prev, curr_sect_name)

\* C7: _parse_config either goes on, returns, or raises DuplicateSectionError
\* or DuplicateOptionError: no other exception leaves it.
C7_OnlyDuplicateErrors ==
    nops = 0 => exc \in {"none", "DuplicateSectionError", "DuplicateOptionError"}

\* the line opens a multiline block (the third branch of _parse_config)
OpensBlock(line) ==
    ~_is_section(line) /\ ~_is_option(line) /\ _is_multiline_option(line)

\* the line ends an open block: a section, option or multiline-start line
ClosesBlock(line) ==
    _is_section(line) \/ _is_option(line) \/ _is_multiline_option(line)

\* the index of the last section header of c at or before i, 0 if none
RECURSIVE HeaderBefore(_, _)
HeaderBefore(c, i) ==
    IF i = 0 THEN 0 ELSE IF _is_section(c[i]) THEN i ELSE HeaderBefore(c, i - 1)

\* the lines of c from index i up to the next line that ends a block
RECURSIVE BlockLines(_, _)
BlockLines(c, i) ==
    IF i > Len(c) \/ ClosesBlock(c[i]) THEN <<>>
    ELSE <<c[i]>> \o BlockLines(c, i + 1)

\* the continuation lines of the block opened at index i of c, blank and
\* comment lines left out, each trimmed, in input order
BlockValues(c, i) ==
    LET kept == SelectSeq(BlockLines(c, i + 1),
                          LAMBDA l : ~_is_empty_line(l) /\ ~_is_comment(l))
    IN  [j \in 1..Len(kept) |-> Strip(kept[j])]

\* C8: Multiline aggregation: after _parse_config returned, for every
\* multiline block of the input, get(section, option) returns the list of the
\* block's continuation lines, trimmed, without blank and comment lines, one
\* element per remaining line, in input order.
C8_MultilineAggregation ==
    Parsed =>
        \A i \in 1..Len(content) :
            (OpensBlock(content[i]) /\ HeaderBefore(content, i) # 0) =>
                get(Self,
                    Strip(_SECTION_RE_group1(content[HeaderBefore(content, i)])),
                    Strip(OptionName(content[i])),
                    _UNSET)
                  = Return(List(BlockValues(content, i)))

\* the last call was set with a single-line value, on a section that existed
\* and held the option neither in its body nor in the lookup index
SetOfNewOption ==
    /\ last.op = "set" /\ ~last.multiline /\ ~HasBreak(last.value)
    /\ InList(last.section, prev._sections)
    /\ last.option \notin BodyNames(BodyOf(prev, last.section))
    /\ last.option \notin LookupNames(prev, last.section)

\* C9: set(section, option, value) with a single-line value on an existing
\* section that lacks the option appends exactly one entry at the end of the
\* section's body, written by write() as "option: value\n", and makes
\* has_option(section, option) True.
C9_SetAppends ==
    SetOfNewOption =>
        LET old == BodyOf(prev, last.section)
            new == BodyOf(Self, last.section)
        IN  /\ exc = "none"
            /\ Len(new) = Len(old) + 1
            /\ SubSeq(new, 1, Len(old)) = old
            /\ EntryText(new[Len(new)])
                 = last.option \o <<":", " ">> \o last.value \o <<NL>>
            /\ has_option(Self, last.section, last.option) = Return(TRUE)

\* the last call was set on an option the section's body already held
SetOfExistingOption ==
    /\ last.op = "set"
    /\ InList(last.section, prev._sections)
    /\ last.option \in BodyNames(BodyOf(prev, last.section))

\* the call left everything but the entry at index i of the section's body
\* as it was: the other entries, the other sections and the header
InPlace(section, i) ==
    LET old == BodyOf(prev, section)
        new == BodyOf(Self, section)
    IN  /\ Len(new) = Len(old)
        /\ \A j \in 1..Len(old) :
              /\ new[j].option = old[j].option
              /\ j # i => new[j] = old[j]
        /\ DictKeys(_config) = DictKeys(prev._config)
        /\ \A j \in 1..Len(_config) :
              /\ _config[j].v._raw = prev._config[j].v._raw
              /\ _config[j].k # section => _config[j] = prev._config[j]
        /\ _header = prev._header

\* C10: set on an option that already exists in the section is an in-place
\* update: the option keeps its position in the body, the number of body
\* entries does not change, and every other body entry, every other section
\* and the header are unchanged.
C10_SetInPlace ==
    SetOfExistingOption =>
        InPlace(last.section, BodyIndex(BodyOf(prev, last.section), last.option))

\* the last call was set and it returned
SetReturned == last.op = "set" /\ exc = "none"

\* the index of the body entry the set call wrote: the first entry of that
\* name when the lookup index held the name, the appended entry otherwise
SetTarget ==
    IF last.option \in LookupNames(prev, last.section)
    THEN BodyIndex(BodyOf(Self, last.section), last.option)
    ELSE Len(BodyOf(Self, last.section))

\* the text the arguments of a set call determine: "option:\n" and one
\* indented line per value line, or "option: value\n"
SetText(option, value, multiline, indent) ==
    IF multiline \/ HasBreak(value)
    THEN option \o <<":", NL>>
         \o Join([i \in 1..Len(Split(value)) |->
                     Spaces(indent) \o Split(value)[i] \o <<NL>>])
    ELSE option \o <<":", " ">> \o value \o <<NL>>

\* C11: After set(section, option, value, multiline, indent) returned, the
\* text write() emits for the option is the text the arguments determine,
\* whether or not the option existed before and whatever kind of entry it
\* was: "option:\n" followed by one line per value line, each prefixed by
\* indent spaces, when value has a line break or multiline was requested,
\* and "option: value\n" otherwise.
C11_SetTextFromArguments ==
    SetReturned =>
        /\ SetTarget # 0
        /\ EntryText(BodyOf(Self, last.section)[SetTarget])
             = SetText(last.option, last.value, last.multiline, last.indent)

\* the fields s hold the same document as the fields r: header, sections,
\* bodies and lookup index
SameDocument(s, r) ==
    /\ s._header = r._header
    /\ s._sections = r._sections
    /\ s._config = r._config
    /\ s._options = r._options

\* the fields differ from those before the call in nothing but the body and
\* the lookup dict of the section
OnlySectionChanged(section) ==
    /\ _header = prev._header
    /\ _sections = prev._sections
    /\ DictKeys(_config) = DictKeys(prev._config)
    /\ \A j \in 1..Len(_config) :
          /\ _config[j].v._raw = prev._config[j].v._raw
          /\ _config[j].k # section => _config[j] = prev._config[j]
    /\ DictKeys(_options) = DictKeys(prev._options)
    /\ \A j \in 1..Len(_options) :
          _options[j].k # section => _options[j] = prev._options[j]

\* C12: remove_option(section, option) raises NoSectionError when the section
\* is missing and NoOptionError when the section exists but holds no such
\* option, and leaves the document unchanged in both cases; on an existing
\* option it returns, the body loses that entry and the lookup index that
\* record while every other entry stays, has_option is False afterwards and
\* the written output no longer holds the option.
C12_RemoveOption ==
    last.op = "remove_option" =>
        LET old == BodyOf(prev, last.section)
            new == BodyOf(Self, last.section)
            i == BodyIndex(old, last.option)
        IN  IF ~InList(last.section, prev._sections)
            THEN exc = "NoSectionError" /\ SameDocument(Self, prev)
            ELSE IF i = 0
            THEN exc = "NoOptionError" /\ SameDocument(Self, prev)
            ELSE /\ exc = "none"
                 /\ new = DelAt(old, i)
                 /\ last.option \notin BodyNames(new)
                 /\ Lookup(Self, last.section) = DictDel(Lookup(prev, last.section), last.option)
                 /\ has_option(Self, last.section, last.option) = Return(FALSE)
                 /\ OnlySectionChanged(last.section)

\* the section is in none of sections(), the stored sections that write()
\* emits, and the lookup index
SectionGone(self, section) ==
    /\ ~InList(section, sections(self))
    /\ ~DictHas(self._config, section)
    /\ ~DictHas(self._options, section)

\* C13: remove_section(name) raises NoSectionError and changes nothing when
\* name is absent; for an existing section, parsed or added, with or without
\* options, it returns with the section gone from sections(), from the
\* stored sections write() emits and from the lookup index, every other
\* section, its lookup dict and the header being as before; it never leaves
\* the section gone from one of these structures and present in another.
C13_RemoveSection ==
    last.op = "remove_section" =>
        IF ~InList(last.section, prev._sections)
        THEN exc = "NoSectionError" /\ SameDocument(Self, prev)
        ELSE /\ exc = "none"
             /\ SectionGone(Self, last.section)
             /\ _sections = SelectSeq(prev._sections, LAMBDA s : s # last.section)
             /\ _config = DictDel(prev._config, last.section)
             /\ _options = DictDel(prev._options, last.section)
             /\ _header = prev._header

\* C14: add_section(name) raises DuplicateSectionError and leaves the
\* document unchanged when sections() holds the name, parsed or added;
\* otherwise it returns, the new section is the last of sections() and the
\* last stored section, its body is empty, its header is written as
\* "\n[name]\n", every earlier section, the lookup index of the others and
\* the header are as before, and has_section(name) is True.
C14_AddSection ==
    last.op = "add_section" =>
        IF InList(last.section, sections(prev))
        THEN exc = "DuplicateSectionError" /\ SameDocument(Self, prev)
        ELSE /\ exc = "none"
             /\ _sections = Append(prev._sections, last.section)
             /\ _config = Append(prev._config,
                    [k |-> last.section,
                     v |-> [_raw |-> <<NL, "[">> \o last.section \o <<"]", NL>>,
                            body |-> <<>>]])
             /\ write(Self) = write(prev) \o <<NL, "[">> \o last.section \o <<"]", NL>>
             /\ Lookup(Self, last.section) = <<>>
             /\ \A s \in SectionArgs \ {last.section} : Lookup(Self, s) = Lookup(prev, s)
             /\ _header = prev._header
             /\ has_section(Self, last.section)

\* the section names the accessors are asked about: the names the mutation
\* methods use and a name no document holds
QuerySections == SectionArgs \cup {<<"z", "z">>}

\* C15: In every state after _parse_config returned, whatever mutation calls
\* followed, has_section gives a boolean and has_option returns a boolean
\* and raises nothing, for every section name and option name; has_option
\* returns False when sections() does not hold the section.
C15_HasNeverRaises ==
    pc = "ready" =>
        \A section \in QuerySections, option \in OptionArgs :
            /\ has_section(Self, section) \in BOOLEAN
            /\ has_option(Self, section, option).exc = "none"
            /\ has_option(Self, section, option).val \in BOOLEAN
            /\ ~has_section(Self, section) =>
                   has_option(Self, section, option) = Return(FALSE)

\* the names of the option entries of a body, in the order of the body
NameList(body) == [i \in 1..Len(OptionEntries(body)) |-> OptionEntries(body)[i].option]

\* C16: In every state after _parse_config returned, options(section)
\* returns, for a section that sections() holds, the option names of the
\* section in insertion order (the order of the section's option entries),
\* and raises NoSectionError for every other section name.
C16_OptionsInOrder ==
    pc = "ready" =>
        \A section \in QuerySections :
            LET r == options(Self, section)
            IN  IF has_section(Self, section)
                THEN /\ r.exc = "none"
                     /\ r.val.t = "dict"
                     /\ DictKeys(r.val.d) = NameList(BodyOf(Self, section))
                ELSE r.exc = "NoSectionError"

\* the fallbacks the converting accessors are given, one of each target type
FallbackInt == Integer(128)
FallbackFloat == Float("finite", 1234, 3)
FallbackBool == Bool(TRUE)

\* the section holds an option of that name: its body has such an entry
OptionExists(self, section, option) ==
    has_section(self, section) /\ option \in BodyNames(BodyOf(self, section))

\* the value stored for an option that exists: the value of the lookup
\* index, the empty list for a multiline start without continuation lines
Stored(self, section, option) ==
    IF option \in LookupNames(self, section)
    THEN DictGet(Lookup(self, section), option) ELSE List(<<>>)

\* the same, for the line-at-a-time parser
OptionExists2(self, section, option) ==
    InList(section, get_sections(self)) /\ InList(option, get_options(self, section))
Stored2(self, section, option) ==
    DictGet(DictGet(self.config, section).d, option).value

\* a == b of Python for the values of the model: an int equals the float of
\* the same value
Equal(a, b) ==
    \/ a = b
    \/ a.t = "int" /\ b.t = "float" /\ b = Float("finite", a.n, 0)
    \/ a.t = "float" /\ b.t = "int" /\ a = Float("finite", b.n, 0)

\* the call r with a fallback did what C17 says: it raised nothing and
\* returned the converted value when the option exists and its stored value
\* converts (c is the conversion of the stored value), the fallback otherwise
FallbackRule(r, exists, c, fallback) ==
    /\ r.exc = "none"
    /\ IF exists /\ c.exc = "none" THEN Equal(r.val, c.val) ELSE r.val = fallback

\* the document is complete: _parse_config returned, or the lines were fed
\* to _parse_line
Loaded == pc \in {"ready", "feed"}

\* C17: With a fallback supplied, getint, getfloat and getboolean of both
\* parsers never raise: they return the converted value when the option
\* exists and its stored value converts to the target type, and the
\* fallback unchanged when the section is missing, when the option is
\* missing and when the stored value, a text or a list of lines, does not
\* convert.
C17_FallbackNeverRaises ==
    Loaded =>
        \A section \in QuerySections, option \in OptionArgs :
            LET e1 == OptionExists(Self, section, option)
                v1 == Stored(Self, section, option)
                e2 == OptionExists2(parser, section, option)
                v2 == Stored2(parser, section, option)
            IN  /\ FallbackRule(getint(Self, section, option, FallbackInt),
                                e1, int(v1), FallbackInt)
                /\ FallbackRule(getfloat(Self, section, option, FallbackFloat),
                                e1, float(v1), FallbackFloat)
                /\ FallbackRule(getboolean(Self, section, option, FallbackBool),
                                e1, _convert_to_boolean(v1), FallbackBool)
                /\ FallbackRule(getint2(parser, section, option, FallbackInt),
                                e2, int(v2), FallbackInt)
                /\ FallbackRule(getfloat2(parser, section, option, FallbackFloat),
                                e2, float(v2), FallbackFloat)
                /\ FallbackRule(getboolean2(parser, section, option, FallbackBool),
                                e2, _convert_to_boolean(v2), FallbackBool)

\* the call r without a fallback reported its failure as C18 says:
\* NoSectionError for a missing section, NoOptionError for a missing option
\* of an existing section, and, when the stored value does not convert (c is
\* its conversion), a ValueError that names the stored value and one of the
\* names of the target type
FailureRule(r, hasSection, exists, stored, c, targets) ==
    /\ ~hasSection => r.exc = "NoSectionError"
    /\ (hasSection /\ ~exists) => r.exc = "NoOptionError"
    /\ (exists /\ c.exc # "none") =>
           /\ r.exc = "ValueError"
           /\ r.value = TextOf(stored)
           /\ r.target \in targets

\* C18: Without a fallback, getint, getfloat and getboolean of both parsers
\* report each failure with its own error: NoSectionError when the section
\* is missing, NoOptionError when the section exists and the option is
\* missing, and a conversion error that names the offending value and the
\* target type when the stored value does not convert.
C18_FailuresReported ==
    Loaded =>
        \A section \in QuerySections, option \in OptionArgs :
            LET s1 == has_section(Self, section)
                e1 == OptionExists(Self, section, option)
                v1 == Stored(Self, section, option)
                s2 == InList(section, get_sections(parser))
                e2 == OptionExists2(parser, section, option)
                v2 == Stored2(parser, section, option)
                bool == {"bool", "boolean", "_convert_to_boolean"}
            IN  /\ FailureRule(getint(Self, section, option, _UNSET),
                               s1, e1, v1, int(v1), {"int"})
                /\ FailureRule(getfloat(Self, section, option, _UNSET),
                               s1, e1, v1, float(v1), {"float"})
                /\ FailureRule(getboolean(Self, section, option, _UNSET),
                               s1, e1, v1, _convert_to_boolean(v1), bool)
                /\ FailureRule(getint2(parser, section, option, _UNSET),
                               s2, e2, v2, int(v2), {"int"})
                /\ FailureRule(getfloat2(parser, section, option, _UNSET),
                               s2, e2, v2, float(v2), {"float"})
                /\ FailureRule(getboolean2(parser, section, option, _UNSET),
                               s2, e2, v2, _convert_to_boolean(v2), bool)

\* the tokens getboolean takes for True and for False, as C19 lists them
TrueTokens == {<<"1">>, <<"y", "e", "s">>, <<"t", "r", "u", "e">>, <<"o", "n">>}
FalseTokens == {<<"0">>, <<"n", "o">>, <<"f", "a", "l", "s", "e">>, <<"o", "f", "f">>}

\* the texts a and b are equal when the case of their letters is ignored:
\* at every index both hold one character, or the two forms of one letter
SameIgnoringCase(a, b) ==
    /\ Len(a) = Len(b)
    /\ \A i \in 1..Len(a) :
          \/ a[i] = b[i]
          \/ \E j \in 1..26 : {a[i], b[i]} = {LowerCase[j], UpperCase[j]}

\* the text is one of the tokens, in some spelling
IsToken(text, tokens) == \E tok \in tokens : SameIgnoringCase(text, tok)

\* the options of the main parser that exist with a string value
StringOptions ==
    {so \in SectionArgs \X OptionArgs :
        /\ OptionExists(Self, so[1], so[2])
        /\ Stored(Self, so[1], so[2]).t = "str"}

\* C19: After _parse_config returned, getboolean without a fallback on an
\* existing option whose value is a string returns True exactly when the
\* string is one of 1, yes, true, on and False exactly when it is one of 0,
\* no, false, off, the case of the letters ignored; on every other string it
\* raises a conversion error (ValueError).
C19_BooleanTokens ==
    pc = "ready" =>
        \A so \in StringOptions :
            LET text == Stored(Self, so[1], so[2]).s
                r == getboolean(Self, so[1], so[2], _UNSET)
            IN  /\ IsToken(text, TrueTokens) <=> r = Return(Bool(TRUE))
                /\ IsToken(text, FalseTokens) <=> r = Return(Bool(FALSE))
                /\ ~IsToken(text, TrueTokens \cup FalseTokens) <=> r.exc = "ValueError"

\* C19 happens: getboolean was asked for a token spelled with capital
\* letters and answered True
C19_Witness ==
    /\ pc = "ready"
    /\ \E so \in StringOptions :
          /\ Stored(Self, so[1], so[2]).s \notin TrueTokens
          /\ getboolean(Self, so[1], so[2], _UNSET) = Return(Bool(TRUE))

\* a text of decimal digits only
AllDigits(s) == s # <<>> /\ \A i \in 1..Len(s) : IsDigit(s[i])

\* an integer literal: an optional sign and digits
IntegerLiteral(text) == AllDigits(Unsigned(text))

\* a decimal literal: an optional sign, digits, a point, digits
DecimalLiteral(text) ==
    LET u == Unsigned(text)
    IN  \E p \in 2..(Len(u) - 1) :
            /\ u[p] = "."
            /\ AllDigits(SubSeq(u, 1, p - 1))
            /\ AllDigits(SubSeq(u, p + 1, Len(u)))

\* non-numeric text: letters only, and not one of the names float() reads
NonNumeric(text) ==
    /\ text # <<>>
    /\ \A i \in 1..Len(text) :
          \E j \in 1..26 : text[i] \in {LowerCase[j], UpperCase[j]}
    /\ lower(text) \notin {<<"i", "n", "f">>, <<"n", "a", "n">>,
                           <<"i", "n", "f", "i", "n", "i", "t", "y">>}

\* what C20 says of getint's result ri and getfloat's result rf on a stored text
NumericRule(text, ri, rf) ==
    /\ IntegerLiteral(text) =>
          /\ ri.exc = "none" /\ ri.val.t = "int"
          /\ rf.exc = "none" /\ rf.val.t = "float"
    /\ DecimalLiteral(text) =>
          /\ ri.exc = "ValueError"
          /\ rf.exc = "none" /\ rf.val.t = "float"
    /\ NonNumeric(text) =>
          /\ ri.exc = "ValueError"
          /\ rf.exc = "ValueError"
    /\ (ri.exc = "none" /\ ri.val.t = "int") => IntegerLiteral(Strip(text))

\* C20: Without a fallback, on an existing single-line option of either
\* parser: getint returns an integer only when the stored text is an integer
\* literal and raises a conversion error (ValueError) for a decimal literal
\* and for non-numeric text; getfloat returns a float for an integer literal
\* and for a decimal literal and raises a conversion error for non-numeric
\* text.
C20_NumericAccessors ==
    /\ pc = "ready" =>
          \A so \in StringOptions :
              NumericRule(Stored(Self, so[1], so[2]).s,
                          getint(Self, so[1], so[2], _UNSET),
                          getfloat(Self, so[1], so[2], _UNSET))
    /\ pc = "feed" =>
          \A so \in SectionArgs \X OptionArgs :
              (/\ OptionExists2(parser, so[1], so[2])
               /\ Stored2(parser, so[1], so[2]).t = "str") =>
                  NumericRule(Stored2(parser, so[1], so[2]).s,
                              getint2(parser, so[1], so[2], _UNSET),
                              getfloat2(parser, so[1], so[2], _UNSET))

\* the line-at-a-time parser holds a section of this name: a key of config
\* other than the key of the file header
SectionIn(self, section) == DictHas(self.config, section) /\ section # HEADER_IDENT

\* the section holds an option of this name: a key of the section whose
\* entry is an option record (not the raw header line, not a filler)
OptionIn(self, section, option) ==
    /\ SectionIn(self, section)
    /\ DictHas(DictGet(self.config, section).d, option)
    /\ DictGet(DictGet(self.config, section).d, option).t = "option"

\* the sections, options and fallbacks getval is asked for
GetvalSections == QuerySections \cup {HEADER_IDENT}
GetvalOptions == OptionArgs \cup {RawKey, <<"z">>}
GetvalFallbacks == {_UNSET, Str(<<"f">>), List(<<>>)}

\* C21: getval(section, option, fallback) of the line-at-a-time parser
\* returns the stored value when section and option both exist; otherwise
\* it returns the fallback when one was supplied, and without one it raises
\* NoSectionError when the section is missing and NoOptionError when only
\* the option is missing.  A getval call leaves the document unchanged: the
\* object is still what feeding the lines made it, and its exception is
\* what the rule says.
C21_Getval ==
    pc = "feed" =>
        /\ \A section \in GetvalSections, option \in GetvalOptions,
              fallback \in GetvalFallbacks :
              LET r == getval(parser, section, option, fallback)
              IN  /\ OptionIn(parser, section, option) =>
                         r = Return(DictGet(DictGet(parser.config, section).d,
                                            option).value)
                  /\ (~OptionIn(parser, section, option) /\ fallback # _UNSET) =>
                         r = Return(fallback)
                  /\ (~SectionIn(parser, section) /\ fallback = _UNSET) =>
                         r = Throw("NoSectionError")
                  /\ (/\ SectionIn(parser, section)
                      /\ ~OptionIn(parser, section, option)
                      /\ fallback = _UNSET) => r = Throw("NoOptionError")
        /\ last.op = "getval" =>
              /\ parser = read_file(content).self
              /\ exc = getval(parser, last.section, last.option, last.value).exc

\* the class _parse_line's tests give a line, the block state left aside:
\* the first of the section, option and multiline-start patterns that
\* matches, "filler" for a comment or blank line, "other" for the rest
LineClass(line) ==
    IF _match_section(line) THEN "section"
    ELSE IF _match_option(line) THEN "option"
    ELSE IF _match_options_block_start(line) THEN "start"
    ELSE IF _match_empty_line(line) \/ _match_line_comment(line) THEN "filler"
    ELSE "other"

\* the index of the last section, option or multiline-start line of c before
\* line i, and of the last section line before line i; 0 when there is none
Anchor(c, i) ==
    LET js == {j \in 1..(i - 1) : LineClass(c[j]) \in {"section", "option", "start"}}
    IN  IF js = {} THEN 0 ELSE CHOOSE j \in js : \A h \in js : h <= j
HeaderOf(c, i) ==
    LET js == {j \in 1..(i - 1) : LineClass(c[j]) = "section"}
    IN  IF js = {} THEN 0 ELSE CHOOSE j \in js : \A h \in js : h <= j

\* line i of c is a comment or blank line within a section and outside a
\* multiline block
InFillerRun(c, i) ==
    /\ i \in 1..Len(c)
    /\ LineClass(c[i]) = "filler"
    /\ HeaderOf(c, i) # 0
    /\ LineClass(c[Anchor(c, i)]) # "start"

\* line i starts a maximal run of such lines; the last line of the run
RunStart(c, i) == InFillerRun(c, i) /\ ~InFillerRun(c, i - 1)
RunEnd(c, i) ==
    CHOOSE j \in i..Len(c) :
        /\ \A h \in i..j : InFillerRun(c, h)
        /\ ~InFillerRun(c, j + 1)

\* the maximal runs of comment and blank lines of c that lie in a section of
\* the given name and outside a multiline block, in input order
RunsOf(c, section) ==
    LET starts == SelectSeq([i \in 1..Len(c) |-> i],
                            LAMBDA i : /\ RunStart(c, i)
                                       /\ SECTION_RE_group1(c[HeaderOf(c, i)]) = section)
    IN  [n \in 1..Len(starts) |-> SubSeq(c, starts[n], RunEnd(c, starts[n]))]

\* the filler entries of a section of the line-at-a-time parser, in the
\* order of the section's keys: the lines each of them holds
Fillers(self, section) ==
    LET d == DictGet(self.config, section).d
        keys == SelectSeq(DictKeys(d), LAMBDA k : startswith(k, COLLECTOR_IDENT))
    IN  [n \in 1..Len(keys) |-> DictGet(d, keys[n]).l]

\* the object before the last line was fed
BeforeLastLine == read_file(SubSeq(content, 1, Len(content) - 1)).self

\* C22: After feeding _parse_line any lines, the filler entries of every
\* section are exactly the maximal runs of consecutive comment and blank
\* lines that lie in that section and outside a multiline block: one entry
\* per run, holding the run's lines in input order, the entries in the order
\* of the runs.  A line that starts a run adds one key to its section and
\* leaves every entry the section held before as it was.
C22_FillerRuns ==
    pc = "feed" =>
        /\ \A section \in QuerySections :
              SectionIn(parser, section) =>
                  Fillers(parser, section) = RunsOf(content, section)
        /\ RunStart(content, Len(content)) =>
              LET section == parser.current_section.s
                  before == DictGet(BeforeLastLine.config, section).d
                  after == DictGet(parser.config, section).d
              IN  /\ Len(after) = Len(before) + 1
                  /\ SubSeq(after, 1, Len(before)) = before

\* the names at the chosen lines of c, each name once, in the order of
\* their first lines
NamesAt(c, idx, names) ==
    LET first == SelectSeq(idx, LAMBDA i : \A n \in 1..Len(idx) :
                               idx[n] < i => names[idx[n]] # names[i])
    IN  [n \in 1..Len(first) |-> names[first[n]]]

\* the section names of the header lines of c, in input order
HeaderNames(c) ==
    NamesAt(c, SelectSeq([i \in 1..Len(c) |-> i],
                         LAMBDA i : LineClass(c[i]) = "section"),
            [i \in 1..Len(c) |-> SECTION_RE_group1(c[i])])

\* the option names of the option and multiline-start lines of c that lie
\* in a section of the given name, in input order
OptionNamesIn(c, section) ==
    NamesAt(c, SelectSeq([i \in 1..Len(c) |-> i],
                         LAMBDA i : /\ LineClass(c[i]) \in {"option", "start"}
                                    /\ HeaderOf(c, i) # 0
                                    /\ SECTION_RE_group1(c[HeaderOf(c, i)]) = section),
            [i \in 1..Len(c) |-> OPTION_RE_group1(c[i])])

\* C23: After feeding _parse_line any lines without an exception,
\* get_sections() is the list of the section names of the header lines fed,
\* in input order (the key of the file header is not among them), and
\* get_options(section) is, for each of them, the list of the option names
\* of the option and multiline-start lines fed in that section, in input
\* order (the key of the raw header line and the keys of the filler entries
\* are not among them).
C23_AccessorsListNames ==
    pc = "feed" =>
        /\ get_sections(parser) = HeaderNames(content)
        /\ \A n \in 1..Len(get_sections(parser)) :
              get_options(parser, get_sections(parser)[n])
                  = OptionNamesIn(content, get_sections(parser)[n])

\* the lines of the shape "[x]: y": a bracketed name, a delimiter and text
BracketColonLines == {<<"[", "x", "]", ":", " ", "y", NL>>,
                      <<"[", "a", "b", "]", ":", " ", "y", NL>>}

\* the name between the brackets of such a line
BracketName(line) == SubSeq(line, 2, Find(line, {"]"}, 1) - 1)

\* the last step of _parse_config consumed the line and returned normally
ParsedLine(line) ==
    /\ pc = "parse"
    /\ content # <<>>
    /\ LastLine = line

HeaderGrammar(line) == SECTION_RE_close(line) # 0
BracketedText(line) == SECTION_RE_group1(line)

\* C25: A line is classified as a section header exactly when it has the
\* form of the line grammar's section header (a bracketed name of one or two
\* word tokens of one or more letters, digits or underscores each, and
\* nothing but whitespace and a "#" or ";" comment around it); the captured
\* name is the bracketed text: after _parse_config consumed such a line, it
\* is the current section and sections() lists it.
C25_SectionHeaderGrammar ==
    (pc = "parse" /\ content # <<>>) =>
        /\ _is_section(LastLine) <=> HeaderGrammar(LastLine)
        /\ HeaderGrammar(LastLine) =>
              /\ curr_sect_name = BracketedText(LastLine)
              /\ InList(BracketedText(LastLine), sections(Self))

\* the text after the ":" or "=" delimiter of an option line, without the
\* inline "#" or ";" comment and the whitespace around it
ValueText(line) == OPTION_RE_group2(line)

\* the last entry of the body of the current section
LastEntry == BodyOf(Self, curr_sect_name)[Len(BodyOf(Self, curr_sect_name))]

\* C26: After _parse_config consumed a line classified as a single-line
\* option, the body of the current section ends with an entry whose name is
\* the word before the delimiter, whose value is the text after the
\* delimiter without surrounding whitespace and without an inline comment,
\* and whose raw line is the line as it was read; the lookup index holds the
\* same value under the name.
C26_OptionCapture ==
    (pc = "parse" /\ content # <<>> /\ _is_option(LastLine)) =>
        /\ BodyOf(Self, curr_sect_name) # <<>>
        /\ LastEntry.option = OptionName(LastLine)
        /\ LastEntry.value = <<ValueText(LastLine)>>
        /\ LastEntry._raw = LastLine
        /\ OptionName(LastLine) \in LookupNames(Self, curr_sect_name)
        /\ DictGet(Lookup(Self, curr_sect_name), OptionName(LastLine))
               = Str(ValueText(LastLine))

\* the name of the section whose header most recently preceded the last line
SectionOfLastLine ==
    Strip(_SECTION_RE_group1(content[HeaderBefore(content, Len(content) - 1)]))

\* the last line is an option, multiline-start, comment or blank line
Recordable(line) ==
    /\ ~_is_section(line)
    /\ \/ _is_option(line) \/ _is_multiline_option(line)
       \/ _is_comment(line) \/ _is_empty_line(line)

\* the line was recorded in the body b, which was a before: as the raw line
\* of a new last entry, or as a further raw continuation line of entries
\* that were there
RecordedIn(b, a, line) ==
    \/ /\ Len(b) = Len(a) + 1
       /\ SubSeq(b, 1, Len(a)) = a
       /\ b[Len(b)]._raw = line
    \/ /\ Len(b) = Len(a)
       /\ \E i \in 1..Len(b) : b[i]._raw_value = Append(a[i]._raw_value, line)
       /\ \A i \in 1..Len(b) :
             \/ b[i] = a[i]
             \/ b[i]._raw_value = Append(a[i]._raw_value, line)

LastStructural(c) ==
    LET js == {j \in 1..(Len(c) - 1) : ClosesBlock(c[j])}
    IN  IF js = {} THEN 0 ELSE CHOOSE j \in js : \A h \in js : h <= j

\* the last line of content follows a multiline-start line with nothing but
\* comment, blank and unclassified lines in between, and is such a line
ContinuesBlock ==
    /\ content # <<>>
    /\ LastStructural(content) # 0
    /\ OpensBlock(content[LastStructural(content)])
    /\ ~ClosesBlock(LastLine)

\* C28: During _parse_config, a comment, blank or unclassified line that
\* follows a multiline-start line, with only such lines in between, is
\* consumed without an exception, leaves the block open and is recorded as
\* the next raw continuation line of the entry that the multiline-start
\* line created, the last of its section's body; no other entry changes and
\* none is added.
C28_BlockStaysOpen ==
    (pc \in {"parse", "raised"} /\ ContinuesBlock) =>
        LET b == BodyOf(Self, curr_sect_name)
            a == BodyOf(prev, curr_sect_name)
        IN  /\ pc = "parse"
            /\ in_option_block
            /\ Len(b) = Len(a) /\ b # <<>>
            /\ b[Len(b)]._raw = content[LastStructural(content)]
            /\ b[Len(b)]._raw_value = Append(a[Len(a)]._raw_value, LastLine)
            /\ \A i \in 1..(Len(b) - 1) : b[i] = a[i]
            /\ \A n \in 1..Len(_config) :
                  _config[n].k # curr_sect_name =>
                      _config[n].v.body = BodyOf(prev, _config[n].k)

\* the last line fed is a header line of a section name the object held
\* before; it is an option or multiline-start line of a name that the
\* current section held as an option before
RepeatsSection ==
    /\ content # <<>>
    /\ LineClass(LastLine) = "section"
    /\ SectionIn(BeforeLastLine, SECTION_RE_group1(LastLine))
RepeatsOption ==
    /\ content # <<>>
    /\ LineClass(LastLine) \in {"option", "start"}
    /\ BeforeLastLine.current_section # None
    /\ OptionIn(BeforeLastLine, BeforeLastLine.current_section.s,
                OPTION_RE_group1(LastLine))

\* C29: In the line-at-a-time parser, a second header line of a section
\* name that exists and a second definition of an option name of the
\* current section are reported as an error by _parse_line, and the earlier
\* definition stays: the section keeps its entries, the option its record.
C29_RedefinitionReported ==
    /\ (pc \in {"feed", "raised"} /\ RepeatsSection) =>
          /\ pc = "raised"
          /\ exc = "DuplicateSectionError"
          /\ DictGet(parser.config, SECTION_RE_group1(LastLine))
                 = DictGet(BeforeLastLine.config, SECTION_RE_group1(LastLine))
    /\ (pc \in {"feed", "raised"} /\ RepeatsOption) =>
          /\ pc = "raised"
          /\ exc = "DuplicateOptionError"
          /\ DictGet(parser.config, parser.current_section.s)
                 = DictGet(BeforeLastLine.config, parser.current_section.s)

\* in the fields s, the section is listed by sections() and its body holds
\* no option entry
Optionless(s, section) ==
    /\ InList(section, sections(s))
    /\ OptionEntries(BodyOf(s, section)) = <<>>

\* C30: A section that _parse_config created from a header line with no
\* option lines is usable through the whole API: right after the parse,
\* items(section) returns an empty sequence and has_option(section, x)
\* returns False; as the first call after the parse, remove_option(section,
\* x) raises NoOptionError, and set(section, option, value) returns normally
\* and the section then holds an entry of that name.
C30_OptionlessSectionUsable ==
    /\ (pc = "ready" /\ nops = 0) =>
          \A section \in SectionArgs :
              Optionless(Self, section) =>
                  /\ items(Self, section) = Return(List(<<>>))
                  /\ \A option \in OptionArgs :
                        /\ has_option(Self, section, option).exc = "none"
                        /\ has_option(Self, section, option).val = FALSE
    /\ (pc = "ready" /\ nops = 1 /\ Optionless(prev, last.section)) =>
          /\ last.op = "remove_option" => exc = "NoOptionError"
          /\ last.op = "set" =>
                /\ exc = "none"
                /\ last.option \in BodyNames(BodyOf(Self, last.section))

\* the entries of a body that a single-line option line was parsed into
ParsedSingleLine(body) ==
    SelectSeq(body, LAMBDA e : e.option # <<>> /\ ~e.is_multiline /\ _is_option(e._raw))

\* C31: get after set agrees with get after parse: after a set call that
\* returned, with a value of one line and multiline not requested,
\* get(section, option) returns the string value itself; that is the
\* representation get returns right after the parse for an option parsed
\* from a single-line option line, the string captured from the line.
C31_GetAfterSet ==
    /\ (pc = "ready" /\ SetReturned /\ ~last.multiline /\ ~HasBreak(last.value)) =>
          get(Self, last.section, last.option, _UNSET) = Return(Str(last.value))
    /\ (pc = "ready" /\ nops = 0) =>
          \A n \in 1..Len(_config) :
              LET es == ParsedSingleLine(_config[n].v.body)
              IN  \A i \in 1..Len(es) :
                      get(Self, _config[n].k, es[i].option, _UNSET)
                          = Return(Str(Strip(_OPTION_RE_group2(es[i]._raw))))

\* f.readlines(): the lines of a text, each with its line break
RECURSIVE readlines(_)
readlines(s) ==
    IF s = <<>> THEN <<>>
    ELSE IF NextBreak(s, 1) = 0 THEN <<s>>
    ELSE <<SubSeq(s, 1, NextBreak(s, 1))>>
             \o readlines(SubSeq(s, NextBreak(s, 1) + 1, Len(s)))

\* the loop of _parse_config over the lines left, from the object and the
\* local _curr_multi_opt reached so far; an exception ends the loop
RECURSIVE ParseLines(_, _, _)
ParseLines(self, multi, lines) ==
    IF lines = <<>> THEN Ok(self)
    ELSE LET r == _parse_config(self, multi, Head(lines))
         IN  IF r.exc # "none" THEN [self |-> r.self, exc |-> r.exc]
             ELSE ParseLines(r.self, r.multi, Tail(lines))

\* read() of a fresh parser on a file holding text
read(text) == ParseLines(__init__, <<>>, readlines(text))

\* the fresh parser after it read what write() wrote for the document
Reread == read(write(Self))

\* the option names options(section) lists: the keys of the dict it returns,
\* none for None
OptionNames(self, section) ==
    LET d == options(self, section).val.d
    IN  [i \in 1..Len(d) |-> d[i].k]

\* C32: mutations survive a write/re-parse cycle: whenever the document is
\* parsed (or empty) and any sequence of add_section, set, remove_option and
\* remove_section calls was made on it, a fresh parser reads the written
\* text without an error and has the same sections() in the same order,
\* the same option names in each section and the same value for each option.
C32_MutationsSurviveReparse ==
    pc = "ready" =>
        /\ Reread.exc = "none"
        /\ sections(Reread.self) = sections(Self)
        /\ \A n \in 1..Len(sections(Self)) :
              LET section == sections(Self)[n]
                  names == OptionNames(Self, section)
              IN  /\ OptionNames(Reread.self, section) = names
                  /\ \A i \in 1..Len(names) :
                        get(Reread.self, section, names[i], _UNSET)
                            = get(Self, section, names[i], _UNSET)

====
